---------------------------- MODULE Spec2Model ----------------------------
(***************************************************************************)
(* A model of covid.py: the refresh of the local data file (update_csv),   *)
(* the CSV scan (get_values), the label helper (kind_label), the date      *)
(* alignment and bar stacking of plot_devon, and the report driver (main). *)
(*                                                                         *)
(* Text is modelled at character level: a Python str is a sequence of      *)
(* one-character strings, so that split, strip, replace, lower, upper,     *)
(* int() and strptime() are computed, not assumed.                         *)
(***************************************************************************)
EXTENDS Integers, Sequences, FiniteSets, TLC

VARIABLES
    file,            \* the local copy FNAME: [exists, mtime, lines]
    now,             \* the wall clock, in ticks (TicksPerDay ticks a day)
    calls,           \* the log of the update_csv calls made so far
    location,        \* the argument of the get_values call under study
    result,          \* what that get_values call produced
    kind,            \* the argument of the kind_label call under study
    label,           \* what that kind_label call produced
    series,          \* plot_devon: what get_values returned, kept for reference
    location_values, \* plot_devon: its dict, location -> series / array
    all_dates,       \* plot_devon: the shared date axis
    bottom,          \* plot_devon: the running stack height
    bars,            \* plot_devon: the plt.bar calls made, in order
    pc,              \* the position of the code under study
    save,            \* main: its argument
    idx,             \* main: the index of the location being charted
    figs,            \* main: the figures created, in order
    saved,           \* main: the file names written by plt.savefig, in order
    shown,           \* main: the number of plt.show() calls
    reads,           \* main: the number of times the data file was opened
    error            \* main: the unhandled exception that ended the run

vars == <<file, now, calls, location, result, kind, label, series,
          location_values, all_dates, bottom, bars, pc, save, idx, figs, saved,
          shown, reads, error>>

-----------------------------------------------------------------------------
(* Bounds of the model.                                                    *)

MaxRows == 3        \* lines in a data file of the get_values study
MaxDay == 2         \* distinct report dates in that study
MaxKindLen == 4     \* characters in a bounded kind string
PDMaxDay == 2       \* distinct report dates of the plot_devon study
TicksPerDay == 2    \* clock resolution: ticks in 24 hours
MaxNow == 5         \* last clock reading of the refresh study

-----------------------------------------------------------------------------
(* Python str primitives.                                                  *)

\* str.isspace for the characters that occur.
IsSpace(c) == c \in {" ", "\t", "\n", "\r"}

Digits == <<"0", "1", "2", "3", "4", "5", "6", "7", "8", "9">>

IsDigit(c) == \E i \in 1..10 : Digits[i] = c

DigitVal(c) == (CHOOSE i \in 1..10 : Digits[i] = c) - 1

UpperCase == <<"A", "B", "C", "D", "E", "F", "G", "H", "I", "J", "K", "L", "M",
               "N", "O", "P", "Q", "R", "S", "T", "U", "V", "W", "X", "Y", "Z">>

LowerCase == <<"a", "b", "c", "d", "e", "f", "g", "h", "i", "j", "k", "l", "m",
               "n", "o", "p", "q", "r", "s", "t", "u", "v", "w", "x", "y", "z">>

\* str.lower, one character.
LowerChar(c) ==
    IF \E i \in 1..26 : UpperCase[i] = c
    THEN LowerCase[CHOOSE i \in 1..26 : UpperCase[i] = c]
    ELSE c

\* str.upper, one character.
UpperChar(c) ==
    IF \E i \in 1..26 : LowerCase[i] = c
    THEN UpperCase[CHOOSE i \in 1..26 : LowerCase[i] = c]
    ELSE c

Lower(s) == [i \in 1..Len(s) |-> LowerChar(s[i])]

Upper(s) == [i \in 1..Len(s) |-> UpperChar(s[i])]

\* s.startswith(p, i - 1): p occurs in s at index i, counted from 1.
MatchAt(s, i, p) ==
    /\ i + Len(p) - 1 <= Len(s)
    /\ (p # <<>> => s[i] = p[1])
    /\ \A k \in 1..Len(p) : s[i + k - 1] = p[k]

\* The number of whitespace characters s begins with, from index i on.
RECURSIVE Leading(_, _)
Leading(s, i) == IF i <= Len(s) /\ IsSpace(s[i]) THEN 1 + Leading(s, i + 1) ELSE 0

\* The number of whitespace characters s ends with, from index i back.
RECURSIVE Trailing(_, _)
Trailing(s, i) == IF i >= 1 /\ IsSpace(s[i]) THEN 1 + Trailing(s, i - 1) ELSE 0

\* str.strip()
Strip(s) ==
    IF Leading(s, 1) = Len(s) THEN <<>>
    ELSE SubSeq(s, 1 + Leading(s, 1), Len(s) - Trailing(s, Len(s)))

\* The least element of a non-empty set of numbers.
Min(S) == CHOOSE x \in S : \A y \in S : x <= y

\* The fields of s from index start on: up to the next sep, and so on.
RECURSIVE SplitOn(_, _, _)
SplitOn(s, sep, start) ==
    LET hits == {j \in start..Len(s) : s[j] = sep}
    IN  IF hits = {} THEN <<SubSeq(s, start, Len(s))>>
        ELSE <<SubSeq(s, start, Min(hits) - 1)>> \o SplitOn(s, sep, Min(hits) + 1)

\* str.split(sep) for a one-character sep: never empty, keeps empty fields.
Split(s, sep) == SplitOn(s, sep, 1)

\* The words of s from index i on; start is the index the current word
\* began at, 0 when the scan is between words.
RECURSIVE SplitWords(_, _, _)
SplitWords(s, start, i) ==
    IF i > Len(s) THEN (IF start = 0 THEN <<>> ELSE <<SubSeq(s, start, Len(s))>>)
    ELSE IF IsSpace(s[i])
         THEN (IF start = 0 THEN <<>> ELSE <<SubSeq(s, start, i - 1)>>)
                 \o SplitWords(s, 0, i + 1)
    ELSE SplitWords(s, IF start = 0 THEN i ELSE start, i + 1)

\* str.split(): runs of whitespace separate, none leads or trails a word.
Words(s) == SplitWords(s, 0, 1)

\* s from index start on, with new for old: at the next occurrence of old,
\* then after it, and so on.
RECURSIVE ReplaceFrom(_, _, _, _)
ReplaceFrom(s, old, new, start) ==
    LET hits == {j \in start..Len(s) : MatchAt(s, j, old)}
    IN  IF hits = {} THEN SubSeq(s, start, Len(s))
        ELSE SubSeq(s, start, Min(hits) - 1) \o new
                \o ReplaceFrom(s, old, new, Min(hits) + Len(old))

\* str.replace(old, new), old not empty: every non-overlapping occurrence,
\* left to right.
Replace(s, old, new) == ReplaceFrom(s, old, new, 1)

\* ''.join(parts)
RECURSIVE Concat(_)
Concat(parts) == IF parts = <<>> THEN <<>> ELSE Head(parts) \o Concat(Tail(parts))

\* sep.join(parts)
RECURSIVE Join(_, _)
Join(parts, sep) ==
    IF parts = <<>> THEN <<>>
    ELSE IF Len(parts) = 1 THEN Head(parts)
    ELSE Head(parts) \o sep \o Join(Tail(parts), sep)

AllDigits(s) == s # <<>> /\ \A i \in 1..Len(s) : IsDigit(s[i])

RECURSIVE DigitsVal(_)
DigitsVal(s) ==
    IF s = <<>> THEN 0 ELSE 10 * DigitsVal(SubSeq(s, 1, Len(s) - 1)) + DigitVal(s[Len(s)])

\* str(n) for n >= 0.
RECURSIVE IntStr(_)
IntStr(n) == IF n < 10 THEN <<Digits[n + 1]>> ELSE IntStr(n \div 10) \o <<Digits[(n % 10) + 1]>>

\* int(s): surrounding whitespace is dropped, one sign is allowed, the rest
\* must be decimal digits.  [ok |-> FALSE] stands for the ValueError.
ParseInt(s) ==
    LET t == Strip(s)
        signed == t # <<>> /\ Head(t) \in {"+", "-"}
        body == IF signed THEN Tail(t) ELSE t
    IN  IF AllDigits(body)
        THEN [ok |-> TRUE,
              val |-> IF signed /\ Head(t) = "-" THEN 0 - DigitsVal(body) ELSE DigitsVal(body)]
        ELSE [ok |-> FALSE, val |-> 0]

IsLeap(y) == (y % 4 = 0 /\ y % 100 # 0) \/ y % 400 = 0

DaysInMonth(y, m) ==
    IF m = 2 THEN (IF IsLeap(y) THEN 29 ELSE 28)
    ELSE IF m \in {4, 6, 9, 11} THEN 30 ELSE 31

\* datetime.strptime(s, '%Y-%m-%d'): a four-digit year, a month and a day of
\* one or two digits, nothing else.  A datetime is modelled by the number
\* yyyymmdd, which orders as datetimes do.  [ok |-> FALSE]: the ValueError.
ParseDate(s) ==
    LET p == Split(s, "-")
        wellShaped == /\ Len(p) = 3
                      /\ Len(p[1]) = 4 /\ AllDigits(p[1])
                      /\ Len(p[2]) \in {1, 2} /\ AllDigits(p[2])
                      /\ Len(p[3]) \in {1, 2} /\ AllDigits(p[3])
    IN  IF /\ wellShaped
           /\ DigitsVal(p[1]) >= 1
           /\ DigitsVal(p[2]) \in 1..12
           /\ DigitsVal(p[3]) \in 1..DaysInMonth(DigitsVal(p[1]), DigitsVal(p[2]))
        THEN [ok |-> TRUE,
              val |-> DigitsVal(p[1]) * 10000 + DigitsVal(p[2]) * 100 + DigitsVal(p[3])]
        ELSE [ok |-> FALSE, val |-> 0]

-----------------------------------------------------------------------------
(* The strings of the program and of its data file.                        *)

SouthWest == <<"S", "o", "u", "t", "h", " ", "W", "e", "s", "t">>

WestBerkshire == <<"W", "e", "s", "t", " ", "B", "e", "r", "k", "s", "h",
    "i", "r", "e">>

Leicester == <<"L", "e", "i", "c", "e", "s", "t", "e", "r">>

Essex == <<"E", "s", "s", "e", "x">>

Basildon == <<"B", "a", "s", "i", "l", "d", "o", "n">>

Dorset == <<"D", "o", "r", "s", "e", "t">>

Somerset == <<"S", "o", "m", "e", "r", "s", "e", "t">>

Gloucestershire == <<"G", "l", "o", "u", "c", "e", "s", "t", "e", "r", "s",
    "h", "i", "r", "e">>

Wiltshire == <<"W", "i", "l", "t", "s", "h", "i", "r", "e">>

CityOfBristol == <<"C", "i", "t", "y", " ", "o", "f", " ", "B", "r", "i",
    "s", "t", "o", "l">>

CornwallAndIslesOfScilly == <<"C", "o", "r", "n", "w", "a", "l", "l", " ",
    "a", "n", "d", " ", "I", "s", "l", "e", "s", " ", "o", "f", " ", "S",
    "c", "i", "l", "l", "y">>

BathAndNorthEastSomerset == <<"B", "a", "t", "h", " ", "a", "n", "d", " ",
    "N", "o", "r", "t", "h", " ", "E", "a", "s", "t", " ", "S", "o", "m",
    "e", "r", "s", "e", "t">>

Exeter == <<"E", "x", "e", "t", "e", "r">>

Devon == <<"D", "e", "v", "o", "n">>

Torbay == <<"T", "o", "r", "b", "a", "y">>

Plymouth == <<"P", "l", "y", "m", "o", "u", "t", "h">>

DevonTotals == <<"D", "e", "v", "o", "n", " ", "T", "o", "t", "a", "l", "s">>

DevonUTLA == <<"D", "e", "v", "o", "n", " ", "U", "T", "L", "A">>

BristolQuoted == <<"\"", "B", "r", "i", "s", "t", "o", "l", ",", " ", "C",
    "i", "t", "y", " ", "o", "f", "\"">>

Nation == <<"N", "a", "t", "i", "o", "n">>

Region == <<"R", "e", "g", "i", "o", "n">>

UpperTierLocalAuthority == <<"U", "p", "p", "e", "r", " ", "T", "i", "e",
    "r", " ", "L", "o", "c", "a", "l", " ", "A", "u", "t", "h", "o", "r",
    "i", "t", "y">>

LowerTierLocalAuthority == <<"L", "o", "w", "e", "r", " ", "T", "i", "e",
    "r", " ", "L", "o", "c", "a", "l", " ", "A", "u", "t", "h", "o", "r",
    "i", "t", "y">>

FilePrefix == <<"c", "o", "v", "i", "d", "_", "c", "a", "s", "e", "s", "_">>

FileSuffix == <<".", "p", "n", "g">>

TitlePrefix == <<"C", "o", "n", "f", "i", "r", "m", "e", "d", " ", "C", "a",
    "s", "e", "s", " ", "i", "n", " ">>

DevonTitle == <<"C", "o", "n", "f", "i", "r", "m", "e", "d", " ", "C", "a",
    "s", "e", "s", " ", "i", "n", " ", "D", "e", "v", "o", "n">>

HeaderLine == <<"A", "r", "e", "a", " ", "n", "a", "m", "e", ",", "A", "r",
    "e", "a", " ", "c", "o", "d", "e", ",", "A", "r", "e", "a", " ", "t",
    "y", "p", "e", ",", "S", "p", "e", "c", "i", "m", "e", "n", " ", "d",
    "a", "t", "e", ",", "D", "a", "i", "l", "y", " ", "l", "a", "b", "-",
    "c", "o", "n", "f", "i", "r", "m", "e", "d", " ", "c", "a", "s", "e",
    "s", "\n">>

DatePrefix == <<"2", "0", "2", "0", "-", "0", "4", "-">>

AreaCode == <<"E", "1">>


\* main's list of locations, in its order.
Locations == <<SouthWest, WestBerkshire, Leicester, Essex, Basildon, Dorset,
               Somerset, Gloucestershire, Wiltshire, CityOfBristol,
               CornwallAndIslesOfScilly, BathAndNorthEastSomerset>>

\* plot_devon's locations, in its order.
DevonLocations == <<Exeter, Devon, Torbay, Plymouth>>

-----------------------------------------------------------------------------
(* get_values.                                                             *)

\* A name no str equals: Python's unbound local.
Unbound == <<"<unbound>">>

InSeq(x, s) == \E i \in 1..Len(s) : s[i] = x

\* The two statements that open the loop body: the rewrite of the one
\* quoted name that holds a comma, then the split.
Parts(line) == Split(Replace(line, BristolQuoted, CityOfBristol), ",")

\* The loop's accumulators before the first line.
ScanStart == [status |-> "ok", date_strings |-> <<>>, num_cases |-> <<>>, kind |-> Unbound]

\* ScanLine without the test for a date already recorded.
ScanLineNoDedup(acc, line, loc) ==
    LET parts == Parts(line)
    IN  IF acc.status # "ok" THEN acc
        ELSE IF Strip(parts[1]) # loc THEN acc
        ELSE IF Len(parts) < 5 THEN [acc EXCEPT !.status = "IndexError"]
        ELSE IF ~ParseInt(parts[5]).ok THEN [acc EXCEPT !.status = "ValueError: int"]
        ELSE [acc EXCEPT !.date_strings = Append(@, parts[4]),
                         !.num_cases = Append(@, ParseInt(parts[5]).val),
                         !.kind = parts[3]]

\* ScanLine converting the count before it tests for a date already recorded.
ScanLineEager(acc, line, loc) ==
    LET parts == Parts(line)
    IN  IF acc.status # "ok" THEN acc
        ELSE IF Strip(parts[1]) # loc THEN acc
        ELSE IF Len(parts) < 5 THEN [acc EXCEPT !.status = "IndexError"]
        ELSE IF ~ParseInt(parts[5]).ok THEN [acc EXCEPT !.status = "ValueError: int"]
        ELSE IF InSeq(parts[4], acc.date_strings) THEN acc
        ELSE [acc EXCEPT !.date_strings = Append(@, parts[4]),
                         !.num_cases = Append(@, ParseInt(parts[5]).val),
                         !.kind = parts[3]]

\* One pass of the loop body over `line`.  acc.status names the exception
\* that ended the scan, if one did.
ScanLine(acc, line, loc) ==
    LET parts == Parts(line)
    IN  IF acc.status # "ok" THEN acc
        ELSE IF Strip(parts[1]) # loc THEN acc
        ELSE IF Len(parts) < 4 THEN [acc EXCEPT !.status = "IndexError"]
        ELSE IF InSeq(parts[4], acc.date_strings) THEN acc
        ELSE IF Len(parts) < 5 THEN [acc EXCEPT !.status = "IndexError"]
        ELSE IF ~ParseInt(parts[5]).ok THEN [acc EXCEPT !.status = "ValueError: int"]
        ELSE [acc EXCEPT !.date_strings = Append(@, parts[4]),
                         !.num_cases = Append(@, ParseInt(parts[5]).val),
                         !.kind = parts[3]]

\* The loop over the first n lines of the file.
RECURSIVE Scan(_, _, _)
Scan(lines, loc, n) ==
    IF n = 0 THEN ScanStart ELSE ScanLine(Scan(lines, loc, n - 1), lines[n], loc)

Raise(exc) == [status |-> exc, dates |-> <<>>, num_cases |-> <<>>, kind |-> Unbound]

ParseErrors == {"IndexError", "ValueError: int", "ValueError: strptime"}

NoData == "ValueError: No data found"

\* get_values without the test for an empty result.
get_values_unchecked(f, loc) ==
    IF ~f.exists THEN Raise("FileNotFoundError")
    ELSE LET acc == Scan(f.lines, loc, Len(f.lines))
         IN  IF acc.status # "ok" THEN Raise(acc.status)
             ELSE IF \E i \in 1..Len(acc.date_strings) : ~ParseDate(acc.date_strings[i]).ok
                  THEN Raise("ValueError: strptime")
             ELSE [status |-> "ok",
                   dates |-> [i \in 1..Len(acc.date_strings) |->
                                 ParseDate(acc.date_strings[i]).val],
                   num_cases |-> acc.num_cases,
                   kind |-> acc.kind]

get_values(f, loc) ==
    IF ~f.exists THEN Raise("FileNotFoundError")
    ELSE LET acc == Scan(f.lines, loc, Len(f.lines))
         IN  IF acc.status # "ok" THEN Raise(acc.status)
             ELSE IF \E i \in 1..Len(acc.date_strings) : ~ParseDate(acc.date_strings[i]).ok
                  THEN Raise("ValueError: strptime")
             ELSE IF acc.date_strings = <<>> THEN Raise(NoData)
             ELSE [status |-> "ok",
                   dates |-> [i \in 1..Len(acc.date_strings) |->
                                 ParseDate(acc.date_strings[i]).val],
                   num_cases |-> acc.num_cases,
                   kind |-> acc.kind]

-----------------------------------------------------------------------------
(* Values of the variables a study leaves alone.                           *)

NoFile == [exists |-> FALSE, mtime |-> 0, lines |-> <<>>]

Pending == Raise("pending")

IdleRefresh == now = 0 /\ calls = <<>>

IdleGetValues == location = <<>> /\ result = Pending

IdleKindLabel == kind = <<>> /\ label = <<>>

IdlePlotDevon ==
    /\ series = <<>> /\ location_values = <<>> /\ all_dates = <<>>
    /\ bottom = <<>> /\ bars = <<>>

IdleMain ==
    /\ save = FALSE /\ idx = 0 /\ figs = <<>> /\ saved = <<>>
    /\ shown = 0 /\ reads = 0 /\ error = "none"

-----------------------------------------------------------------------------
(* The get_values study: a data file of at most MaxRows lines, each drawn  *)
(* from GVLines, is scanned for one of GVLocations.                        *)

\* The date of day d of the month, as the data file writes it.
DateStr(d) == DatePrefix \o (IF d < 10 THEN <<"0">> ELSE <<>>) \o IntStr(d)

\* A line of the data file: the fields, comma-separated, and the line break.
Row(fields) == Join(fields, <<",">>) \o <<"\n">>

GVLines ==
    \* rows of Devon, one per date, each with a count of its own
    {Row(<<Devon, AreaCode, Region, DateStr(d), IntStr(d)>>) : d \in 1..MaxDay}
    \cup
    {\* a row of Devon whose name is padded, with columns after the count
     Row(<<<<" ">> \o Devon \o <<" ">>, AreaCode, Region, DateStr(1), IntStr(0), IntStr(7)>>),
     \* the row whose quoted name holds a comma
     Row(<<BristolQuoted, AreaCode, UpperTierLocalAuthority, DateStr(1), IntStr(12)>>),
     \* the header of the published file
     HeaderLine,
     \* malformed rows: too few fields, a count or a date that does not parse
     Row(<<Devon, AreaCode, Region>>),
     Row(<<Devon, AreaCode, Region, DateStr(MaxDay)>>),
     Row(<<Devon, AreaCode, Region, DateStr(1), <<"x">>>>),
     Row(<<Devon, AreaCode, Region, <<"n", "/", "a">>, IntStr(1)>>)}

\* The sequences of at most n elements of S, none repeated.
RECURSIVE SeqsUpTo(_, _)
SeqsUpTo(S, n) ==
    IF n = 0 THEN {<<>>}
    ELSE LET shorter == SeqsUpTo(S, n - 1)
         IN  shorter \cup
             UNION {{Append(s, x) : x \in S \ {s[i] : i \in 1..Len(s)}} :
                       s \in {t \in shorter : Len(t) = n - 1}}

\* The data files of the study: no line occurs twice in a file.
GVFiles == {[exists |-> TRUE, mtime |-> 0, lines |-> ls] : ls \in SeqsUpTo(GVLines, MaxRows)}

GVLocations == {Devon, CityOfBristol}

InitGV ==
    /\ file \in GVFiles
    /\ pc = "start"
    /\ location = <<>>
    /\ result = Pending
    /\ IdleRefresh /\ IdleKindLabel /\ IdlePlotDevon /\ IdleMain

\* A call get_values(loc).
GetValues ==
    /\ pc = "start"
    /\ \E loc \in GVLocations :
          /\ location' = loc
          /\ result' = get_values(file, loc)
    /\ pc' = "returned"
    /\ UNCHANGED <<file, now, calls, kind, label, series, location_values,
                   all_dates, bottom, bars, save, idx, figs, saved, shown, reads,
                   error>>

NextGV == GetValues

SpecGV == InitGV /\ [][NextGV]_vars

-----------------------------------------------------------------------------
(* What the data file holds for a location, stated row by row.  A row is   *)
(* the sequence of the fields of its line.                                 *)

RECURSIVE RowsOf(_)
RowsOf(lines) ==
    IF lines = <<>> THEN <<>>
    ELSE Append(RowsOf(SubSeq(lines, 1, Len(lines) - 1)), Parts(lines[Len(lines)]))

\* The rows whose first field, trimmed, is loc.
MatchingRows(rows, loc) == {i \in 1..Len(rows) : Strip(rows[i][1]) = loc}

\* A row with the five fields the scan reads, a date and an integer count.
WellFormed(row) == Len(row) >= 5 /\ ParseDate(row[4]).ok /\ ParseInt(row[5]).ok

\* A row with too few fields, or whose count is no integer.
Malformed(row) == Len(row) < 5 \/ ~ParseInt(row[5]).ok

\* The rows among `matching` that are the first of their date.
FirstOfDate(rows, matching) ==
    {i \in matching : \A j \in matching : j < i => rows[j][4] # rows[i][4]}

\* The place of row i among the rows `first`, in file order.
Rank(first, i) == Cardinality({j \in first : j <= i})

\* C1: for a location with at least one matching row, get_values returns
\* dates and counts of equal length, as many as there are distinct date
\* fields among the matching rows, the dates in first-seen file order, each
\* count that of the first row of its date; and it does return whenever
\* every matching row is well formed.
C1_SeriesMatchesRows ==
    LET rows == RowsOf(file.lines)
        matching == MatchingRows(rows, location)
        first == FirstOfDate(rows, matching)
    IN  pc = "returned" /\ matching # {} =>
            /\ (\A i \in matching : WellFormed(rows[i])) => result.status = "ok"
            /\ result.status = "ok" =>
                  /\ Len(result.dates) = Len(result.num_cases)
                  /\ Len(result.dates) = Cardinality({rows[i][4] : i \in matching})
                  /\ \A i \in first :
                        /\ result.dates[Rank(first, i)] = ParseDate(rows[i][4]).val
                        /\ result.num_cases[Rank(first, i)] = ParseInt(rows[i][5]).val

\* C1's case: three matching rows, a repeated date, two dates returned in
\* file order, which is not date order.
C1_Witness ==
    /\ pc = "returned" /\ result.status = "ok"
    /\ Cardinality(MatchingRows(RowsOf(file.lines), location)) = 3
    /\ Len(result.dates) = 2
    /\ result.dates[1] > result.dates[2]
    /\ result.num_cases[1] # result.num_cases[2]

\* C2: for a location with no matching row, get_values ends in the "no data
\* found" error: it returns no empty series and fails in no other way.
C2_NoDataError ==
    pc = "returned" /\ MatchingRows(RowsOf(file.lines), location) = {}
        => result.status = NoData

\* C2's case: a file with rows, some of them malformed, none of the location.
C2_Witness ==
    LET rows == RowsOf(file.lines)
    IN  /\ pc = "returned" /\ result.status = NoData
        /\ Len(rows) = 3
        /\ \E i \in 1..Len(rows) : Malformed(rows[i])
        /\ \E i \in 1..Len(rows) : WellFormed(rows[i])

\* C8 as stated: a malformed row anywhere in the file makes every get_values
\* call end in a parsing error.
C8_AnyMalformedRowFails ==
    LET rows == RowsOf(file.lines)
    IN  pc = "returned" /\ (\E i \in 1..Len(rows) : Malformed(rows[i]))
            => result.status \in ParseErrors

\* The rows at which the scan stops: a matching row with no date field, or a
\* matching row that is the first of its date and has no count field or a
\* count that is no integer.
StopsScan(rows, matching, i) ==
    /\ i \in matching
    /\ \/ Len(rows[i]) < 4
       \/ /\ \A j \in matching : j < i /\ Len(rows[j]) >= 4 => rows[j][4] # rows[i][4]
          /\ Malformed(rows[i])

\* C8 as amended: get_values ends in a parsing error exactly when a row of
\* the requested location stops the scan, or a date field of that location
\* is no date.  Malformed rows of other locations, and malformed rows that
\* repeat a date already recorded, are passed over.
C8_ParseErrorIffOwnRow ==
    LET rows == RowsOf(file.lines)
        matching == MatchingRows(rows, location)
    IN  pc = "returned" =>
            (result.status \in ParseErrors <=>
                \/ \E i \in matching : StopsScan(rows, matching, i)
                \/ \E i \in matching : ~ParseDate(rows[i][4]).ok)

\* C8's case: the parsing error of a malformed row of the requested
\* location, met after a well-formed one.
C8_Witness ==
    LET rows == RowsOf(file.lines)
        matching == MatchingRows(rows, location)
    IN  /\ pc = "returned" /\ result.status \in ParseErrors
        /\ Len(rows) >= 2
        /\ WellFormed(rows[1]) /\ 1 \in matching
        /\ \E i \in 2..Len(rows) : StopsScan(rows, matching, i)

-----------------------------------------------------------------------------
(* kind_label, and its study: the call on every string of at most          *)
(* MaxKindLen characters of KindAlphabet and on the four kinds of the data. *)

\* [word[0] for word in words]
RECURSIVE Initials(_)
Initials(words) ==
    IF words = <<>> THEN <<>> ELSE <<Head(words)[1]>> \o Initials(Tail(words))

\* kind_label without the upper-casing.
kind_label_raw(k) ==
    LET words == Words(k)
    IN  IF Len(words) > 1 THEN Initials(words) ELSE k

kind_label(k) ==
    LET words == Words(k)
    IN  IF Len(words) > 1 THEN Upper(Initials(words)) ELSE k

KindAlphabet == {"a", "T", " ", "\n"}

RECURSIVE StringsUpTo(_, _)
StringsUpTo(S, n) ==
    IF n = 0 THEN {<<>>}
    ELSE LET shorter == StringsUpTo(S, n - 1)
         IN  shorter \cup {Append(s, x) : s \in {t \in shorter : Len(t) = n - 1}, x \in S}

KindInputs ==
    StringsUpTo(KindAlphabet, MaxKindLen)
        \cup {Nation, Region, UpperTierLocalAuthority, LowerTierLocalAuthority}

InitKL ==
    /\ kind \in KindInputs
    /\ label = <<>>
    /\ pc = "start"
    /\ file = NoFile
    /\ IdleRefresh /\ IdleGetValues /\ IdlePlotDevon /\ IdleMain

\* A call kind_label(kind).
KindLabel ==
    /\ pc = "start"
    /\ label' = kind_label(kind)
    /\ pc' = "returned"
    /\ UNCHANGED <<file, now, calls, location, result, kind, series,
                   location_values, all_dates, bottom, bars, save, idx, figs, saved,
                   shown, reads, error>>

NextKL == KindLabel

SpecKL == InitKL /\ [][NextKL]_vars

\* The indices of s at which a word begins: a character that is no
\* whitespace, at the start of s or after whitespace.
WordStarts(s) == {i \in 1..Len(s) : ~IsSpace(s[i]) /\ (i = 1 \/ IsSpace(s[i - 1]))}

\* C10: of a kind of two or more words kind_label returns the upper-cased
\* first characters of the words, in order ("Upper Tier Local Authority"
\* gives "UTLA"); a kind of exactly one word it returns as it is.
C10_KindLabel ==
    LET starts == WordStarts(kind)
    IN  pc = "returned" =>
            /\ Cardinality(starts) >= 2 =>
                  /\ Len(label) = Cardinality(starts)
                  /\ \A i \in starts :
                        label[Cardinality({j \in starts : j <= i})] = UpperChar(kind[i])
            /\ Cardinality(starts) = 1 => label = kind
            /\ kind = UpperTierLocalAuthority => label = <<"U", "T", "L", "A">>

\* C10's case: the label of the four-word kind of the data.
C10_Witness ==
    pc = "returned" /\ kind = UpperTierLocalAuthority /\ label = <<"U", "T", "L", "A">>

-----------------------------------------------------------------------------
(* plot_devon: the alignment of the four series on one date axis and the   *)
(* stacked bars.                                                           *)

DevonLocSet == {DevonLocations[k] : k \in 1..Len(DevonLocations)}

colors == <<"tab:red", "tab:gray", "tab:blue", "tab:orange">>

\* x put in its place in the ascending, duplicate-free sequence s.
RECURSIVE InsertUnique(_, _)
InsertUnique(x, s) ==
    IF s = <<>> THEN <<x>>
    ELSE IF x = Head(s) THEN s
    ELSE IF x < Head(s) THEN <<x>> \o s
    ELSE <<Head(s)>> \o InsertUnique(x, Tail(s))

\* np.unique(s): the elements of s, ascending, each once.
RECURSIVE Unique(_)
Unique(s) == IF s = <<>> THEN <<>> ELSE InsertUnique(Head(s), Unique(Tail(s)))

\* np.unique(np.concatenate([values[0] for values in location_values.values()]))
AllDates(lv) ==
    Unique(Concat([k \in 1..Len(DevonLocations) |-> lv[DevonLocations[k]].dates]))

\* The inner loop: each date of the axis the series lacks is appended to
\* its dates, and a 0 to its counts.
RECURSIVE Fill(_, _, _)
Fill(dates, num_cases, axis) ==
    IF axis = <<>> THEN [dates |-> dates, num_cases |-> num_cases]
    ELSE IF InSeq(Head(axis), dates) THEN Fill(dates, num_cases, Tail(axis))
    ELSE Fill(Append(dates, Head(axis)), Append(num_cases, 0), Tail(axis))

\* zip(dates, num_cases)
Zip(dates, num_cases) == [i \in 1..Len(dates) |-> <<dates[i], num_cases[i]>>]

\* The order of tuples: by date, then by count.
PairLess(p, q) == p[1] < q[1] \/ (p[1] = q[1] /\ p[2] < q[2])

RECURSIVE InsertPair(_, _)
InsertPair(p, s) ==
    IF s = <<>> THEN <<p>>
    ELSE IF PairLess(p, Head(s)) THEN <<p>> \o s
    ELSE <<Head(s)>> \o InsertPair(p, Tail(s))

\* sorted(pairs)
RECURSIVE Sorted(_)
Sorted(pairs) ==
    IF pairs = <<>> THEN <<>>
    ELSE InsertPair(pairs[Len(pairs)], Sorted(SubSeq(pairs, 1, Len(pairs) - 1)))

\* AlignSeries without the sort.
AlignSeriesUnsorted(s, axis) == Fill(s.dates, s.num_cases, axis).num_cases

\* The body of the alignment loop for one series: fill, sort by date, keep
\* the counts.
AlignSeries(s, axis) ==
    LET filled == Fill(s.dates, s.num_cases, axis)
        sorted == Sorted(Zip(filled.dates, filled.num_cases))
    IN  [i \in 1..Len(sorted) |-> sorted[i][2]]

\* The alignment loop: location_values after it.
Aligned(lv, axis) == [loc \in DevonLocSet |-> AlignSeries(lv[loc], axis)]

\* A number, and a numpy array: what `bottom` holds.
Scalar(n) == [shape |-> "scalar", v |-> n]

Array(a) == [shape |-> "array", v |-> a]

\* Element i of x, a scalar standing for an array of itself.
At(x, i) == IF x.shape = "scalar" THEN x.v ELSE x.v[i]

\* num_cases + bottom
Add(num_cases, bot) == Array([i \in 1..Len(num_cases) |-> num_cases[i] + At(bot, i)])

\* NextBottom adding every layer, Exeter too.
NextBottomAll(loc, num_cases, bot) == Add(num_cases, bot)

\* What the loop body leaves in bottom.
NextBottom(loc, num_cases, bot) == IF loc # Exeter THEN Add(num_cases, bot) ELSE bot

\* zip(locations, colors, range(4)[::-1]): the z-order of bar k.
ZOrder(k) == Len(DevonLocations) - k

\* The plt.bar call of pass k of the drawing loop.
Bar(k, lv, axis, bot) ==
    [location |-> DevonLocations[k],
     label |-> IF DevonLocations[k] = Devon THEN DevonUTLA ELSE DevonLocations[k],
     x |-> axis,
     height |-> lv[DevonLocations[k]],
     bottom |-> bot,
     color |-> colors[k],
     zorder |-> ZOrder(k)]

\* The drawing loop from pass k on: the bars it draws.
RECURSIVE DrawFrom(_, _, _, _)
DrawFrom(k, lv, axis, bot) ==
    IF k > Len(DevonLocations) THEN <<>>
    ELSE <<Bar(k, lv, axis, bot)>>
            \o DrawFrom(k + 1, lv, axis, NextBottom(DevonLocations[k], lv[DevonLocations[k]], bot))

-----------------------------------------------------------------------------
(* The plot_devon study.  The data file lists PDMaxDay dates in some order; *)
(* each of the four locations has rows for some of them, at least one.      *)

PDDays == 1..PDMaxDay

\* The datetime of day d, as get_values returns it.
PDDate(d) == ParseDate(DateStr(d)).val

\* The count tables of the study: all counts zero, and a count of its own
\* for every location and day.
PDScales == {0, 1}

PDCases(k, d, scale) == scale * (k + Len(DevonLocations) * (d - 1))

PDOrders == {o \in [PDDays -> PDDays] : \A a, b \in PDDays : a # b => o[a] # o[b]}

\* The days of `order` that are in `days`, in that order.
RECURSIVE Pick(_, _)
Pick(order, days) ==
    IF order = <<>> THEN <<>>
    ELSE (IF Head(order) \in days THEN <<Head(order)>> ELSE <<>>) \o Pick(Tail(order), days)

\* What get_values returns for location k, whose rows are of `days`.
PDSeries(k, order, days, scale) ==
    LET ds == Pick(order, days)
    IN  [status |-> "ok",
         dates |-> [i \in 1..Len(ds) |-> PDDate(ds[i])],
         num_cases |-> [i \in 1..Len(ds) |-> PDCases(k, ds[i], scale)],
         kind |-> IF DevonLocations[k] = Exeter THEN LowerTierLocalAuthority
                  ELSE UpperTierLocalAuthority]

PDInputs ==
    {[loc \in DevonLocSet |->
         PDSeries(CHOOSE k \in 1..Len(DevonLocations) : DevonLocations[k] = loc,
                  order, days[loc], scale)] :
        order \in PDOrders,
        days \in [DevonLocSet -> (SUBSET PDDays) \ {{}}],
        scale \in PDScales}

InitPD ==
    /\ series \in PDInputs
    /\ location_values = series
    /\ all_dates = <<>>
    /\ bottom = <<>>
    /\ bars = <<>>
    /\ pc = "align"
    /\ file = NoFile
    /\ IdleRefresh /\ IdleGetValues /\ IdleKindLabel /\ IdleMain

\* The alignment: the shared axis, then the loop over the locations.
Align ==
    /\ pc = "align"
    /\ all_dates' = AllDates(location_values)
    /\ location_values' = Aligned(location_values, AllDates(location_values))
    /\ bottom' = Scalar(0)
    /\ pc' = "draw"
    /\ UNCHANGED <<file, now, calls, location, result, kind, label, series, bars,
                   save, idx, figs, saved, shown, reads, error>>

\* One pass of the drawing loop.
DrawBar ==
    /\ pc = "draw"
    /\ Len(bars) < Len(DevonLocations)
    /\ LET k == Len(bars) + 1
       IN  /\ bars' = Append(bars, Bar(k, location_values, all_dates, bottom))
           /\ bottom' = NextBottom(DevonLocations[k], location_values[DevonLocations[k]], bottom)
    /\ UNCHANGED <<file, now, calls, location, result, kind, label, series,
                   location_values, all_dates, pc, save, idx, figs, saved, shown,
                   reads, error>>

\* The end of the drawing loop: axes, legend and title, which leave the bars
\* as they are.
FinishDevon ==
    /\ pc = "draw"
    /\ Len(bars) = Len(DevonLocations)
    /\ pc' = "done"
    /\ UNCHANGED <<file, now, calls, location, result, kind, label, series,
                   location_values, all_dates, bottom, bars, save, idx, figs,
                   saved, shown, reads, error>>

NextPD == Align \/ DrawBar \/ FinishDevon

SpecPD == InitPD /\ [][NextPD]_vars

RECURSIVE Sum(_)
Sum(s) == IF s = <<>> THEN 0 ELSE Head(s) + Sum(Tail(s))

DateSet(s) == {s.dates[i] : i \in 1..Len(s.dates)}

\* The count the series s holds for date d, 0 when it holds none.
CountOn(s, d) ==
    IF \E i \in 1..Len(s.dates) : s.dates[i] = d
    THEN s.num_cases[CHOOSE i \in 1..Len(s.dates) : s.dates[i] = d]
    ELSE 0

\* C3: after the alignment all_dates is the ascending, duplicate-free union
\* of the dates of the four series; every aligned array is as long as it and
\* holds, at each index, the series' own count for that date, or 0 where the
\* series had none; so every aligned array sums to what its series summed to.
C3_Alignment ==
    pc \in {"draw", "done"} =>
        LET union == UNION {DateSet(series[loc]) : loc \in DevonLocSet}
        IN  /\ Len(all_dates) = Cardinality(union)
            /\ {all_dates[i] : i \in 1..Len(all_dates)} = union
            /\ \A i \in 1..Len(all_dates) - 1 : all_dates[i] < all_dates[i + 1]
            /\ \A loc \in DevonLocSet :
                  /\ Len(location_values[loc]) = Len(all_dates)
                  /\ \A i \in 1..Len(all_dates) :
                        location_values[loc][i] = CountOn(series[loc], all_dates[i])
                  /\ Sum(location_values[loc]) = Sum(series[loc].num_cases)

\* C3's case: the axis has every date, Devon came in descending date order,
\* Torbay lacked a date and got a 0 for it, and the counts are not all zero.
C3_Witness ==
    /\ pc = "draw"
    /\ Len(all_dates) = PDMaxDay
    /\ Len(series[Devon].dates) = PDMaxDay
    /\ series[Devon].dates[1] > series[Devon].dates[2]
    /\ Len(series[Torbay].dates) < Len(all_dates)
    /\ Sum(location_values[Torbay]) > 0
    /\ \E i \in 1..Len(all_dates) :
          all_dates[i] \notin DateSet(series[Torbay]) /\ location_values[Torbay][i] = 0

\* The sum, at index i, of the aligned counts of the stacked layers (all but
\* Exeter) among the first n locations.
StackBelow(n, i) ==
    Sum([k \in 1..n |-> IF DevonLocations[k] = Exeter THEN 0
                        ELSE location_values[DevonLocations[k]][i]])

\* C4: every stacked layer is drawn on a base equal to the sum of the stacked
\* layers drawn before it, Exeter on base 0 and never added to the running
\* height; after the four layers the running height is Devon + Torbay +
\* Plymouth at every date; and the z-order falls from Exeter through Devon
\* and Torbay to Plymouth.
C4_Stacking ==
    pc \in {"draw", "done"} =>
        /\ \A k \in 1..Len(bars) :
              /\ bars[k].location = DevonLocations[k]
              /\ bars[k].height = location_values[DevonLocations[k]]
              /\ \A i \in 1..Len(all_dates) :
                    At(bars[k].bottom, i) =
                        IF DevonLocations[k] = Exeter THEN 0 ELSE StackBelow(k - 1, i)
              /\ \A j \in 1..Len(bars) : j < k => bars[j].zorder > bars[k].zorder
        /\ \A i \in 1..Len(all_dates) : At(bottom, i) = StackBelow(Len(bars), i)
        /\ Len(bars) = Len(DevonLocations) =>
              /\ <<bars[1].location, bars[2].location, bars[3].location, bars[4].location>>
                    = <<Exeter, Devon, Torbay, Plymouth>>
              /\ \A i \in 1..Len(all_dates) :
                    At(bottom, i) = location_values[Devon][i] + location_values[Torbay][i]
                                       + location_values[Plymouth][i]

\* C4's case: the four layers are drawn, each with a count at the first
\* date, and Plymouth stands on Devon and Torbay.
C4_Witness ==
    /\ pc = "done"
    /\ Len(bars) = Len(DevonLocations)
    /\ \A loc \in DevonLocSet : location_values[loc][1] > 0
    /\ At(bars[4].bottom, 1) = location_values[Devon][1] + location_values[Torbay][1]
    /\ At(bottom, 1) > At(bars[4].bottom, 1)

-----------------------------------------------------------------------------
(* update_csv.                                                             *)

\* (current_datetime - modified_datetime).days: whole days, rounded down,
\* so -1 for a file modified after the clock reading.
AgeDays(n, mtime) == (n - mtime) \div TicksPerDay

\* NeedsFetch asking for an age of a day or more.
NeedsFetchOlder(f, n) == ~f.exists \/ AgeDays(n, f.mtime) > 0

\* The test that sends update_csv on to the removal and the download.
NeedsFetch(f, n) == ~(f.exists /\ AgeDays(n, f.mtime) = 0)

\* What `wget URL` may leave at FNAME, no file being there: nothing when it
\* fails, else the remote file under the modification time it attaches.
Fetch(mtimes, contents) ==
    {NoFile} \cup {[exists |-> TRUE, mtime |-> m, lines |-> c] : m \in mtimes, c \in contents}

\* CallEnds raising when the command failed, as subprocess.check_call does.
CallEndsChecked(f) == IF f.exists THEN "returned" ELSE "CalledProcessError"

\* How sp.call(command, shell=True) ends: it returns the exit status of the
\* command, which update_csv drops, whether or not a file arrived.
CallEnds(f) == "returned"

\* The outcomes of a call update_csv() at clock reading n with local file f.
update_csv(f, n, mtimes, contents) ==
    IF ~NeedsFetch(f, n)
    THEN {[file |-> f, removed |-> FALSE, fetched |-> FALSE, ends |-> "returned"]}
    ELSE {[file |-> g, removed |-> f.exists, fetched |-> TRUE, ends |-> CallEnds(g)] :
             g \in Fetch(mtimes, contents)}

Stat(f) == [exists |-> f.exists, mtime |-> f.mtime]

\* The entry of the log for the call that took f at n to outcome o.
CallRecord(f, n, o) ==
    [at |-> n, before |-> Stat(f), removed |-> o.removed, fetched |-> o.fetched,
     after |-> Stat(o.file)]

\* The log keeps the last two calls.
Logged(log, rec) == IF Len(log) < 2 THEN Append(log, rec) ELSE <<log[2], rec>>

-----------------------------------------------------------------------------
(* The refresh study: update_csv is called again and again while the clock  *)
(* runs from 0 to MaxNow.                                                   *)

\* Modification times: from a day before the start to a tick after the end.
RFMTimes == (0 - TicksPerDay)..(MaxNow + 1)

RFContents == {<<HeaderLine>>}

InitRF ==
    /\ file \in Fetch(RFMTimes, RFContents)
    /\ now = 0
    /\ calls = <<>>
    /\ pc = "idle"
    /\ IdleGetValues /\ IdleKindLabel /\ IdlePlotDevon /\ IdleMain

\* A call update_csv().
RefreshCall ==
    /\ \E o \in update_csv(file, now, RFMTimes, RFContents) :
          /\ file' = o.file
          /\ calls' = Logged(calls, CallRecord(file, now, o))
    /\ UNCHANGED <<now, location, result, kind, label, series, location_values,
                   all_dates, bottom, bars, pc, save, idx, figs, saved, shown,
                   reads, error>>

\* The clock moves on.
Tick ==
    /\ now < MaxNow
    /\ now' = now + 1
    /\ UNCHANGED <<file, calls, location, result, kind, label, series,
                   location_values, all_dates, bottom, bars, pc, save, idx, figs,
                   saved, shown, reads, error>>

NextRF == RefreshCall \/ Tick

SpecRF == InitRF /\ [][NextRF]_vars

\* Two clock readings of the same calendar day.
SameDay(a, b) == a \div TicksPerDay = b \div TicksPerDay

\* C5 as stated: of two consecutive calls within the same day, the first of
\* which fetches, the second removes nothing and fetches nothing, whatever
\* modification time the retrieval attached.
C5_SecondCallIsNoOp ==
    Len(calls) = 2 /\ SameDay(calls[1].at, calls[2].at) /\ calls[1].fetched
        => ~calls[2].fetched /\ ~calls[2].removed

\* C5 as amended: of two consecutive calls within the same day, the first of
\* which fetches, the second removes nothing and fetches nothing exactly
\* when the retrieval left a file whose modification time is, at the second
\* call, zero whole days old; when the retrieval failed, or attached a time
\* a day or more old or later than the clock, the second call fetches again.
C5_NoOpIffFreshDownload ==
    Len(calls) = 2 /\ SameDay(calls[1].at, calls[2].at) /\ calls[1].fetched
        => LET fresh == /\ calls[1].after.exists
                        /\ (calls[2].at - calls[1].after.mtime) \in 0..(TicksPerDay - 1)
           IN  /\ fresh => ~calls[2].fetched /\ ~calls[2].removed
               /\ ~fresh => calls[2].fetched /\ (calls[2].removed <=> calls[1].after.exists)

\* C5's case: the first call fetches, the second, later the same day, does
\* nothing.
C5_Witness ==
    /\ Len(calls) = 2
    /\ calls[1].at < calls[2].at /\ SameDay(calls[1].at, calls[2].at)
    /\ calls[1].fetched /\ calls[1].removed
    /\ ~calls[2].fetched /\ ~calls[2].removed

-----------------------------------------------------------------------------
(* save_fig, plot_values and main.                                         *)

\* loc_str without the lower-casing.
loc_str_cased(loc) == Replace(loc, <<" ">>, <<"_">>)

\* location.lower().replace(' ', '_')
loc_str(loc) == Replace(Lower(loc), <<" ">>, <<"_">>)

\* 'covid_cases_{}.png'.format(loc_str)
FigFile(loc) == FilePrefix \o loc_str(loc) \o FileSuffix

\* 'Confirmed Cases in {} {}'.format(location, kind_label(kind))
Title(loc, k) == TitlePrefix \o loc \o <<" ">> \o kind_label(k)

\* plt.figure(): a new, empty figure, which becomes the current one.
NewFig == [open |-> TRUE, drawn |-> FALSE, title |-> <<>>, bars |-> <<>>]

\* The current figure after plot_values(loc), get_values having returned r.
\* The grid, the axis limits and ticks, and the hatching of the last days
\* style the figure and leave its bars and title as they are.
PlottedValues(fig, loc, r) ==
    [fig EXCEPT !.drawn = TRUE,
                !.title = Title(loc, r.kind),
                !.bars = <<[x |-> r.dates, height |-> r.num_cases]>>]

\* The four get_values calls that open plot_devon, in order: the results up
\* to and with the first that raises.
RECURSIVE DevonReads(_, _)
DevonReads(f, k) ==
    IF k > Len(DevonLocations) THEN <<>>
    ELSE LET r == get_values(f, DevonLocations[k])
         IN  IF r.status # "ok" THEN <<r>> ELSE <<r>> \o DevonReads(f, k + 1)

\* The current figure after plot_devon(), the four series being rs.
PlottedDevon(fig, rs) ==
    LET lv == [loc \in DevonLocSet |->
                  rs[CHOOSE k \in 1..Len(DevonLocations) : DevonLocations[k] = loc]]
        axis == AllDates(lv)
    IN  [fig EXCEPT !.drawn = TRUE,
                    !.title = DevonTitle,
                    !.bars = DrawFrom(1, Aligned(lv, axis), axis, Scalar(0))]

\* The position after the chart of figure k is drawn.
AfterPlot(sv, k) ==
    IF sv THEN "save"
    ELSE IF k <= Len(Locations) THEN "figure" ELSE "show"

-----------------------------------------------------------------------------
(* The study of main: a run of main(save), the local file being absent,     *)
(* fresh or a day old, over the data files of MainData.                     *)

\* The name a location goes by in the data file.
NameInFile(loc) == IF loc = CityOfBristol THEN BristolQuoted ELSE loc

AllLocations == Locations \o DevonLocations

\* A data file with a row for each location but `missing`, the count of
\* `broken` being no number, and a second date for Devon and Plymouth.
DataFile(missing, broken) ==
    LET row(k, d) ==
            IF AllLocations[k] = missing THEN <<>>
            ELSE <<Row(<<NameInFile(AllLocations[k]), AreaCode,
                         IF k = 1 THEN Region ELSE UpperTierLocalAuthority,
                         DateStr(d),
                         IF AllLocations[k] = broken THEN <<"x">> ELSE IntStr(k + d)>>)>>
    IN  <<HeaderLine>>
           \o row(14, 2) \o row(16, 2)
           \o Concat([k \in 1..Len(AllLocations) |-> row(k, 1)])

MainData ==
    {DataFile(<<>>, <<>>), DataFile(Leicester, <<>>), DataFile(Torbay, <<>>),
     DataFile(<<>>, Wiltshire)}

MainMTimes == {0 - TicksPerDay, 0}

InitMain ==
    /\ file \in Fetch(MainMTimes, MainData)
    /\ save \in BOOLEAN
    /\ now = 0
    /\ calls = <<>>
    /\ pc = "update"
    /\ idx = 0
    /\ figs = <<>>
    /\ saved = <<>>
    /\ shown = 0
    /\ reads = 0
    /\ error = "none"
    /\ IdleGetValues /\ IdleKindLabel /\ IdlePlotDevon

\* update_csv()
MainUpdate ==
    /\ pc = "update"
    /\ \E o \in update_csv(file, now, MainMTimes, MainData) :
          /\ file' = o.file
          /\ calls' = Logged(calls, CallRecord(file, now, o))
          /\ IF o.ends = "returned"
             THEN pc' = "figure" /\ error' = error
             ELSE pc' = "crashed" /\ error' = o.ends
    /\ idx' = 1
    /\ UNCHANGED <<now, location, result, kind, label, series, location_values,
                   all_dates, bottom, bars, save, figs, saved, shown, reads>>

\* plt.figure(figsize=FIG_SIZE), in the loop and before plot_devon.
Figure ==
    /\ pc = "figure"
    /\ figs' = Append(figs, NewFig)
    /\ pc' = "plot"
    /\ UNCHANGED <<file, now, calls, location, result, kind, label, series,
                   location_values, all_dates, bottom, bars, save, idx, saved,
                   shown, reads, error>>

\* plot_values(loc)
PlotValues ==
    /\ pc = "plot"
    /\ idx <= Len(Locations)
    /\ reads' = reads + 1
    /\ LET r == get_values(file, Locations[idx])
       IN  IF r.status = "ok"
           THEN /\ figs' = [figs EXCEPT ![Len(figs)] = PlottedValues(@, Locations[idx], r)]
                /\ pc' = AfterPlot(save, idx)
                /\ idx' = IF save THEN idx ELSE idx + 1
                /\ error' = error
           ELSE /\ pc' = "crashed"
                /\ error' = r.status
                /\ UNCHANGED <<figs, idx>>
    /\ UNCHANGED <<file, now, calls, location, result, kind, label, series,
                   location_values, all_dates, bottom, bars, save, saved, shown>>

\* plot_devon()
PlotDevon ==
    /\ pc = "plot"
    /\ idx = Len(Locations) + 1
    /\ LET rs == DevonReads(file, 1)
       IN  /\ reads' = reads + Len(rs)
           /\ IF rs[Len(rs)].status = "ok"
              THEN /\ figs' = [figs EXCEPT ![Len(figs)] = PlottedDevon(@, rs)]
                   /\ pc' = AfterPlot(save, idx)
                   /\ error' = error
              ELSE /\ pc' = "crashed"
                   /\ error' = rs[Len(rs)].status
                   /\ UNCHANGED figs
    /\ UNCHANGED <<file, now, calls, location, result, kind, label, series,
                   location_values, all_dates, bottom, bars, save, idx, saved,
                   shown>>

\* save_fig(loc) in the loop, save_fig('Devon Totals') after it: the current
\* figure is written and closed.
SaveFig ==
    /\ pc = "save"
    /\ saved' = Append(saved, FigFile(IF idx <= Len(Locations) THEN Locations[idx]
                                      ELSE DevonTotals))
    /\ figs' = [figs EXCEPT ![Len(figs)].open = FALSE]
    /\ pc' = IF idx <= Len(Locations) THEN "figure" ELSE "done"
    /\ idx' = IF idx <= Len(Locations) THEN idx + 1 ELSE idx
    /\ UNCHANGED <<file, now, calls, location, result, kind, label, series,
                   location_values, all_dates, bottom, bars, save, shown, reads,
                   error>>

\* plt.show()
Show ==
    /\ pc = "show"
    /\ shown' = shown + 1
    /\ pc' = "done"
    /\ UNCHANGED <<file, now, calls, location, result, kind, label, series,
                   location_values, all_dates, bottom, bars, save, idx, figs,
                   saved, reads, error>>

NextMain == MainUpdate \/ Figure \/ PlotValues \/ PlotDevon \/ SaveFig \/ Show

SpecMain == InitMain /\ [][NextMain]_vars

\* The update_csv call of the run fetched and no file arrived.
FetchFailed == Len(calls) = 1 /\ calls[1].fetched /\ ~calls[1].after.exists

\* C7 as stated: a failed retrieval ends the run in update_csv with the
\* error of the retrieval: main opens no figure and does not go on to read
\* the data file.
C7_FailedFetchEndsRun ==
    FetchFailed => pc = "crashed" /\ error # "none" /\ reads = 0 /\ figs = <<>>

\* C7 as amended: a failed retrieval raises nothing in update_csv, which
\* returns; main opens the first figure and the run ends at the first read
\* of the data file, with the error of opening a file that is not there; no
\* chart is drawn, saved or shown.
C7_FailedFetchEndsAtFirstRead ==
    FetchFailed =>
        /\ ~file.exists
        /\ pc \in {"figure", "plot", "crashed"}
        /\ pc = "figure" => figs = <<>> /\ reads = 0 /\ error = "none"
        /\ pc = "plot" => Len(figs) = 1 /\ reads = 0 /\ error = "none"
        /\ pc = "crashed" =>
              /\ error = "FileNotFoundError"
              /\ reads = 1
              /\ Len(figs) = 1 /\ ~figs[1].drawn
              /\ saved = <<>> /\ shown = 0

\* C7's case: the run that ended at the first read after a failed retrieval.
C7_Witness == FetchFailed /\ pc = "crashed" /\ error = "FileNotFoundError"

\* The file names of a complete run of main(True), in order.
ExpectedFiles ==
    << <<"c", "o", "v", "i", "d", "_", "c", "a", "s", "e", "s", "_", "s", "o",
       "u", "t", "h", "_", "w", "e", "s", "t", ".", "p", "n", "g">>,
     <<"c", "o", "v", "i", "d", "_", "c", "a", "s", "e", "s", "_", "w", "e",
       "s", "t", "_", "b", "e", "r", "k", "s", "h", "i", "r", "e", ".", "p",
       "n", "g">>,
     <<"c", "o", "v", "i", "d", "_", "c", "a", "s", "e", "s", "_", "l", "e",
       "i", "c", "e", "s", "t", "e", "r", ".", "p", "n", "g">>,
     <<"c", "o", "v", "i", "d", "_", "c", "a", "s", "e", "s", "_", "e", "s",
       "s", "e", "x", ".", "p", "n", "g">>,
     <<"c", "o", "v", "i", "d", "_", "c", "a", "s", "e", "s", "_", "b", "a",
       "s", "i", "l", "d", "o", "n", ".", "p", "n", "g">>,
     <<"c", "o", "v", "i", "d", "_", "c", "a", "s", "e", "s", "_", "d", "o",
       "r", "s", "e", "t", ".", "p", "n", "g">>,
     <<"c", "o", "v", "i", "d", "_", "c", "a", "s", "e", "s", "_", "s", "o",
       "m", "e", "r", "s", "e", "t", ".", "p", "n", "g">>,
     <<"c", "o", "v", "i", "d", "_", "c", "a", "s", "e", "s", "_", "g", "l",
       "o", "u", "c", "e", "s", "t", "e", "r", "s", "h", "i", "r", "e", ".",
       "p", "n", "g">>,
     <<"c", "o", "v", "i", "d", "_", "c", "a", "s", "e", "s", "_", "w", "i",
       "l", "t", "s", "h", "i", "r", "e", ".", "p", "n", "g">>,
     <<"c", "o", "v", "i", "d", "_", "c", "a", "s", "e", "s", "_", "c", "i",
       "t", "y", "_", "o", "f", "_", "b", "r", "i", "s", "t", "o", "l", ".",
       "p", "n", "g">>,
     <<"c", "o", "v", "i", "d", "_", "c", "a", "s", "e", "s", "_", "c", "o",
       "r", "n", "w", "a", "l", "l", "_", "a", "n", "d", "_", "i", "s", "l",
       "e", "s", "_", "o", "f", "_", "s", "c", "i", "l", "l", "y", ".", "p",
       "n", "g">>,
     <<"c", "o", "v", "i", "d", "_", "c", "a", "s", "e", "s", "_", "b", "a",
       "t", "h", "_", "a", "n", "d", "_", "n", "o", "r", "t", "h", "_", "e",
       "a", "s", "t", "_", "s", "o", "m", "e", "r", "s", "e", "t", ".", "p",
       "n", "g">>,
     <<"c", "o", "v", "i", "d", "_", "c", "a", "s", "e", "s", "_", "d", "e",
       "v", "o", "n", "_", "t", "o", "t", "a", "l", "s", ".", "p", "n", "g">> >>

\* What main has done so far is what the claim allows.
C9_State ==
    \* update_csv has returned before the data file is read
    /\ (reads > 0 \/ figs # <<>>) => Len(calls) = 1 /\ pc # "update"
    \* one figure a location, in the order of the list, the composite last
    /\ Len(figs) <= Len(Locations) + 1
    /\ \A k \in 1..Len(figs) :
          /\ k < Len(figs) => figs[k].drawn
          /\ figs[k].drawn /\ k <= Len(Locations) =>
                MatchAt(figs[k].title, 1, TitlePrefix \o Locations[k] \o <<" ">>)
          /\ figs[k].drawn /\ k = Len(Locations) + 1 =>
                /\ figs[k].title = DevonTitle
                /\ Len(figs[k].bars) = Len(DevonLocations)
    \* save=True: every figure is saved under its name and closed before the
    \* next one is created
    /\ save =>
          /\ shown = 0
          /\ Len(saved) <= Len(figs)
          /\ \A k \in 1..Len(figs) :
                /\ k < Len(figs) => k <= Len(saved)
                /\ figs[k].open <=> k > Len(saved)
          /\ \A k \in 1..Len(saved) : saved[k] = ExpectedFiles[k] /\ figs[k].drawn
          /\ pc = "done" =>
                /\ Len(saved) = Len(Locations) + 1
                /\ Cardinality({saved[k] : k \in 1..Len(saved)}) = Len(Locations) + 1
    \* save=False: nothing is written or closed, and the figures are shown
    \* once, after the composite chart
    /\ ~save =>
          /\ saved = <<>>
          /\ \A k \in 1..Len(figs) : figs[k].open
          /\ shown <= 1
          /\ shown = 1 <=> pc = "done"
          /\ pc = "done" => Len(figs) = Len(Locations) + 1 /\ figs[Len(figs)].drawn
    \* a failure leaves the figure of its location empty
    /\ pc = "crashed" =>
          /\ error # "none"
          /\ figs # <<>> /\ ~figs[Len(figs)].drawn
          /\ shown = 0
    /\ error # "none" <=> pc = "crashed"

\* What a step of main may do: the data file stays as update_csv left it,
\* and a failed or finished run takes no step.
C9_Step ==
    /\ pc # "update" => file' = file
    /\ pc \notin {"crashed", "done"}
    /\ Len(figs') >= Len(figs) /\ Len(saved') >= Len(saved)

\* C9: in every run of main update_csv completes before the first read and
\* the data file is not touched after it; the twelve locations are charted
\* one figure each in list order and the composite last; with save=True each
\* figure is saved under covid_cases_<location>.png and closed before the
\* next is created, 13 distinct files on a complete run; with save=False
\* nothing is written or closed and the figures are shown once, at the end;
\* a failure at one location stops the run.
C9_MainRun == [](C9_State) /\ [][C9_Step]_vars

\* C9's case: a complete run of main(True), its 13 files written.
C9_Witness ==
    /\ pc = "done" /\ save
    /\ Len(saved) = Len(Locations) + 1
    /\ saved[Len(saved)] = ExpectedFiles[Len(Locations) + 1]
    /\ calls[1].fetched

=============================================================================
